---- MODULE Spec2Model ----
(***************************************************************************)
(* The Compiler orchestrator of packages/bundler/src/lib/compiler.ts:      *)
(* build() with its incremental handle, the lifecycle hooks, the memory-   *)
(* filesystem write loop, and the debounced chokidar callback installed by *)
(* the constructor.  JavaScript is single threaded: every action below is  *)
(* one run-to-completion step (the synchronous prefix of build() up to its *)
(* await, the continuation after the await, one watcher event, one timer). *)
(* The caller supplies both lifecycle hooks; the engine and the filesystem  *)
(* adapter are collaborators whose calls may return or raise.               *)
(***************************************************************************)
EXTENDS Integers, Sequences, FiniteSets, TLC

\* ------------------------------------------------------------------ bounds
MaxBuilds == 3      \* build() invocations per behaviour

\* -------------------------------------------------------- program constants
Wait == 500         \* debounce(..., 500, true): the window in ms
Immediate == TRUE   \* debounce(..., 500, true): leading-edge flag

TickMs == Wait \div 2 \* the clock's granularity

NoTimer == -1       \* debounce's `timeout` when no timer is pending
NoHandle == 0       \* this.result === undefined

\* ------------------------------------------------------------------- paths
\* A path is the sequence of its segments: <<"out", "a.js">> is /out/a.js and
\* <<>> is the root directory.
Root == <<>>
dirname(p) == IF Len(p) = 0 THEN Root ELSE SubSeq(p, 1, Len(p) - 1)

FileA == [path |-> <<"out", "a.js">>, text |-> "a"]
FileB == [path |-> <<"out", "b.js">>, text |-> "b"]
FileC == [path |-> <<"dist", "c.js">>, text |-> "c"]

\* The outputFiles lists an engine result may carry when write is false.
OutputChoices == { <<FileA>>, <<FileC, FileA>> }

\* The files the watch plugin may register with the watcher.
WatchFiles == {"f1"}

\* The adapter states a Compiler may be constructed over.
InitialDirs == { {Root}, {Root, <<"out">>} }

VARIABLES
    watch,            \* options.watch
    memfs,            \* options.memfs
    watcher,          \* this.watcher is set
    watched,          \* the files added to the watcher
    result,           \* this.result: [handle, outputFiles]; handle NoHandle = undefined
    firstBuildPass,   \* this.firstBuildPass
    invocations,      \* the number of build() invocations so far
    pending,          \* the build() invocations suspended at their await
    ended,            \* the build() invocation that ended last, or NoCall
    handles,          \* handles the engine has created by successful full builds
    fs,               \* the filesystem adapter: [dirs, files]
    timeout,          \* debounce: ms since the pending timer was armed, or NoTimer
    fsLog,            \* history: the adapter calls of the invocation that ended last
    dirsBefore,       \* history: the adapter's directories before those calls
    added,            \* history: addWatchFile has been called
    window,           \* history: the current debounce window
    dropped,          \* history: an event since the last build() start triggered none
    arg,              \* a pure function under study: its argument
    ret,              \* ... and what it has computed so far
    stage             \* ... and how far the computation has got

\* The variables of the pure functions, which no Compiler action touches.
pure == << arg, ret, stage >>

vars == << watch, memfs, watcher, watched, result, firstBuildPass, invocations,
           pending, ended, handles, fs, timeout, fsLog, dirsBefore, added, window,
           dropped, arg, ret, stage >>

NoCall == [id |-> 0, src |-> "none", kind |-> "none", target |-> NoHandle,
           before |-> NoHandle, at |-> 0, started |-> 0, engine |-> "none",
           pc |-> "none", done |-> 0]
NoResult == [handle |-> NoHandle, outputFiles |-> <<>>]
\* builds: build() calls made by events of the window; ready: firstBuildPass
\* at the leading event; more: an event followed the leading one.
NoWindow == [builds |-> 0, ready |-> FALSE, more |-> FALSE]

\* ------------------------------------------------------------- constructor
\* this.options = normalizeOptions(options); the watcher is created iff
\* options.watch; firstBuildPass = false; result undefined.
\* Mutant: the watcher is created whatever options.watch says.
CreatesWatcherAlways == TRUE

\* if (this.options.watch && !this.watcher) this.watcher = chokidar.watch([])
CreatesWatcher == watch

Init ==
    /\ watch \in BOOLEAN
    /\ memfs \in BOOLEAN
    /\ watcher = CreatesWatcher
    /\ watched = {}
    /\ result = NoResult
    /\ firstBuildPass = FALSE
    /\ invocations = 0
    /\ pending = {}
    /\ ended = NoCall
    /\ handles = 0
    /\ \E d \in InitialDirs : fs = [dirs |-> d, files |-> {}] /\ dirsBefore = d
    /\ timeout = NoTimer
    /\ fsLog = <<>>
    /\ added = FALSE
    /\ window = NoWindow
    /\ dropped = FALSE
    /\ arg = <<>>
    /\ ret = <<>>
    /\ stage = "compiler"

\* ---------------------------------------------------------------- build()
\* if (this.result) rebuild else full build
EngineKind(r) == IF r.handle # NoHandle THEN "rebuild" ELSE "full"

\* The synchronous prefix of build(): hooks.start is called, the engine call
\* is issued and build() suspends at the await.
StartCalls == 1

NewCall(src) ==
    [ id      |-> invocations + 1,
      src     |-> src,
      kind    |-> EngineKind(result),
      target  |-> result.handle,
      started |-> StartCalls ]

StartBuild(src) ==
    /\ invocations' = invocations + 1
    /\ pending' = pending \cup { NewCall(src) }

\* An explicit build() call by the owner of the Compiler.
Build ==
    /\ invocations < MaxBuilds
    /\ StartBuild("explicit")
    /\ dropped' = FALSE
    /\ UNCHANGED << watch, memfs, watcher, watched, result, firstBuildPass, ended,
                    handles, fs, timeout, fsLog, dirsBefore, added, window >>
    /\ UNCHANGED pure

\* ------------------------------------------------------- memfs write loop
\* One adapter call: the call is logged; it raises iff it is the failAt-th
\* adapter call of this loop.
IsMkdir(c) == c[1] = "mkdirSync"
IsWrite(c) == c[1] = "writeFileSync"

PutFile(files, path, text) ==
    { f \in files : f[1] # path } \cup { <<path, text>> }

\* Mutant: the directory is made without asking existsSync.
NeedsMkdirAlways(st, x) == TRUE

\* outputFiles.forEach: for each x, mkdirSync(dirname) unless existsSync, then
\* writeFileSync(x.path, x.text).  st = [fs, log, raised].
NeedsMkdir(st, x) == dirname(x.path) \notin st.fs.dirs

WriteOne(st, x, failAt) ==
    LET d == dirname(x.path)
        afterMk ==
            IF NeedsMkdir(st, x)
            THEN LET log1 == Append(st.log, <<"mkdirSync", d, "">>)
                 IN IF Len(log1) = failAt
                    THEN [st EXCEPT !.log = log1, !.raised = TRUE]
                    ELSE [st EXCEPT !.log = log1,
                                    !.fs.dirs = st.fs.dirs \cup {d}]
            ELSE st
    IN IF afterMk.raised
       THEN afterMk
       ELSE LET log2 == Append(afterMk.log, <<"writeFileSync", x.path, x.text>>)
            IN IF Len(log2) = failAt
               THEN [afterMk EXCEPT !.log = log2, !.raised = TRUE]
               ELSE [afterMk EXCEPT !.log = log2,
                                    !.fs.files = PutFile(afterMk.fs.files, x.path, x.text)]

RECURSIVE WriteLoop(_, _, _)
WriteLoop(st, files, failAt) ==
    IF files = <<>> \/ st.raised
    THEN st
    ELSE WriteLoop(WriteOne(st, Head(files), failAt), Tail(files), failAt)

\* if (context.options.memfs) this.result?.outputFiles?.forEach(...)
MemfsWrites(r, failAt) ==
    IF memfs
    THEN WriteLoop([fs |-> fs, log |-> <<>>, raised |-> FALSE], r.outputFiles, failAt)
    ELSE [fs |-> fs, log |-> <<>>, raised |-> FALSE]

\* Mutant: the write loop sits in the finally block, so a raise still writes
\* the outputs of the handle held.
WritesOnRejectStale == MemfsWrites(result, 0)

\* The adapter calls of an invocation whose engine call raised: the await
\* throws, so control leaves the try block before the loop.
WritesOnReject == [fs |-> fs, log |-> <<>>, raised |-> FALSE]

\* ------------------------------------------------------------- the engine
\* build(request) creates a new handle; handle.rebuild() returns the handle
\* it was called on, with fresh outputs.
EngineResult(c, out) ==
    [ handle      |-> IF c.kind = "full" THEN handles + 1 ELSE c.target,
      outputFiles |-> out ]

EngineOutputs == IF memfs THEN OutputChoices ELSE { <<>> }

\* Each output file costs at most two adapter calls.
MaxFsCalls(out) == 2 * Len(out)

\* ------------------------------------- build(): continuation after await
\* hooks.done is called at the end of the try block.
DoneCallsOnSuccess == 1
\* hooks.done is inside the try block, after the await: a raise skips it.
DoneCallsOnRaise == 0

\* Mutant: the raised engine call's outcome is stored as if it were a handle.
ResultOnRaiseStored(r) == [r EXCEPT !.handle = handles + 1]

\* Mutant: a raise drops the handle.
ResultOnRaiseCleared(r) == NoResult

\* this.result after the engine call raised: the assignment is skipped.
ResultOnRaise(r) == r

\* Mutant: the finally block does not set the flag.
FinallyFirstBuildPassUnset == firstBuildPass

\* finally { this.firstBuildPass = true }
FinallyFirstBuildPass == TRUE

\* How invocation c ended: the handle held just before, the number of
\* invocations made by then, what the engine did, how many times hooks.done
\* ran, and whether the promise build() returned was resolved or rejected.
Ended(c, engine, done, pc) ==
    [ id |-> c.id, src |-> c.src, kind |-> c.kind, target |-> c.target,
      before |-> result.handle, at |-> invocations, started |-> c.started,
      engine |-> engine, pc |-> pc, done |-> done ]

\* The engine call of invocation c returns: this.result is assigned, the
\* memfs loop runs, hooks.done is called, then the finally block.  An adapter
\* call that raises leaves the try block at once.
EngineResolve(c) ==
    /\ c \in pending
    /\ \E out \in EngineOutputs : \E failAt \in 0..MaxFsCalls(out) :
         LET r  == EngineResult(c, out)
             st == MemfsWrites(r, failAt)
         IN /\ failAt <= Len(st.log)
            /\ result' = r
            /\ handles' = IF c.kind = "full" THEN handles + 1 ELSE handles
            /\ fs' = st.fs
            /\ fsLog' = st.log
            /\ dirsBefore' = fs.dirs
            /\ ended' = IF st.raised
                         THEN Ended(c, "ok", DoneCallsOnRaise, "rejected")
                         ELSE Ended(c, "ok", DoneCallsOnSuccess, "resolved")
    /\ pending' = pending \ {c}
    /\ firstBuildPass' = FinallyFirstBuildPass
    /\ UNCHANGED << watch, memfs, watcher, watched, invocations, timeout, added,
                    window, dropped >>
    /\ UNCHANGED pure

\* The engine call of invocation c raises: the rest of the try block is
\* skipped, the finally block runs, and the error leaves build() (there is
\* no catch), rejecting the promise build() returned.
EngineReject(c) ==
    /\ c \in pending
    /\ LET st == WritesOnReject
       IN /\ fs' = st.fs
          /\ fsLog' = st.log
          /\ dirsBefore' = fs.dirs
    /\ ended' = Ended(c, "raised", DoneCallsOnRaise, "rejected")
    /\ pending' = pending \ {c}
    /\ result' = ResultOnRaise(result)
    /\ firstBuildPass' = FinallyFirstBuildPass
    /\ UNCHANGED << watch, memfs, watcher, watched, invocations, handles, timeout,
                    added, window, dropped >>
    /\ UNCHANGED pure

\* ------------------------------------------------------------ the watcher
\* addWatchFile(id): this.watcher?.add(id)
AddWatchFile(id) ==
    /\ id \notin watched
    /\ watched' = IF watcher THEN watched \cup {id} ELSE watched
    /\ added' = TRUE
    /\ UNCHANGED << watch, memfs, watcher, result, firstBuildPass, invocations,
                    pending, ended, handles, fs, timeout, fsLog, dirsBefore, window,
                    dropped >>
    /\ UNCHANGED pure

\* Mutant: the pending timer is not consulted.
CallNowAlways == Immediate

\* debounce: callNow = immediate && !timeout
CallNow == Immediate /\ timeout = NoTimer

\* Mutant: the callback builds without asking for the first build.
WatchGuardNone == TRUE

\* the debounced callback: if (this.firstBuildPass) this.build(false)
WatchGuard == firstBuildPass

\* A chokidar "all" event reaches the debounced listener: a timer is armed
\* unless one is pending, and on the leading edge the callback runs.
WatchEvent ==
    /\ watcher
    /\ watched # {}
    /\ LET fire == CallNow /\ WatchGuard
       IN /\ fire => invocations < MaxBuilds
          /\ timeout' = IF timeout = NoTimer THEN 0 ELSE timeout
          /\ IF fire THEN StartBuild("watch") ELSE UNCHANGED << invocations, pending >>
          /\ window' = IF timeout = NoTimer
                       THEN [builds |-> IF fire THEN 1 ELSE 0,
                             ready |-> firstBuildPass, more |-> FALSE]
                       ELSE [window EXCEPT !.more = TRUE,
                                           !.builds = @ + IF fire THEN 1 ELSE 0]
          /\ dropped' = IF fire THEN FALSE ELSE (dropped \/ firstBuildPass)
    /\ UNCHANGED << watch, memfs, watcher, watched, result, firstBuildPass, ended,
                    handles, fs, fsLog, dirsBefore, added >>
    /\ UNCHANGED pure

\* Mutant: later() calls the callback although immediate is set.
LaterCallsAlways == TRUE

\* debounce's later(): the timer expires no earlier than its deadline and
\* clears `timeout`; it calls the callback only if immediate is not set.
LaterCalls == ~Immediate

TimerFire ==
    /\ timeout # NoTimer
    /\ timeout >= Wait
    /\ LET fire == LaterCalls /\ WatchGuard
       IN /\ fire => invocations < MaxBuilds
          /\ IF fire THEN StartBuild("watch") ELSE UNCHANGED << invocations, pending >>
          /\ dropped' = IF fire THEN FALSE ELSE dropped
    /\ timeout' = NoTimer
    /\ window' = NoWindow
    /\ UNCHANGED << watch, memfs, watcher, watched, result, firstBuildPass, ended,
                    handles, fs, fsLog, dirsBefore, added >>
    /\ UNCHANGED pure

\* Time passes while a timer is pending (the clock matters to nothing else).
Tick ==
    /\ timeout # NoTimer
    /\ timeout < Wait
    /\ timeout' = timeout + TickMs
    /\ UNCHANGED << watch, memfs, watcher, watched, result, firstBuildPass, invocations,
                    pending, ended, handles, fs, fsLog, dirsBefore, added, window,
                    dropped >>
    /\ UNCHANGED pure

Next ==
    \/ Build
    \/ \E c \in pending : EngineResolve(c)
    \/ \E c \in pending : EngineReject(c)
    \/ \E id \in WatchFiles : AddWatchFile(id)
    \/ WatchEvent
    \/ TimerFire
    \/ Tick

Spec == Init /\ [][Next]_vars

\* =========================================================== normalization
\* A path as the path module sees it: absolute or not, and its segments.
\* [abs |-> FALSE, segs |-> <<>>] is the empty string, which join ignores.
isAbsolute(p) == p.abs

\* path.normalize on the segments: "x/.." cancels, a leading ".." is dropped
\* under the root and kept in a relative path.
RECURSIVE NormalizeSegs(_, _, _)
NormalizeSegs(segs, acc, abs) ==
    IF segs = <<>>
    THEN acc
    ELSE LET x == Head(segs)
         IN IF x # ".."
            THEN NormalizeSegs(Tail(segs), Append(acc, x), abs)
            ELSE IF acc # <<>> /\ acc[Len(acc)] # ".."
                 THEN NormalizeSegs(Tail(segs), SubSeq(acc, 1, Len(acc) - 1), abs)
                 ELSE IF abs
                      THEN NormalizeSegs(Tail(segs), acc, abs)
                      ELSE NormalizeSegs(Tail(segs), Append(acc, x), abs)

\* path.join(a, b): the segments are concatenated and normalized; the result
\* is absolute iff the first non-empty argument is.
join(a, b) ==
    LET abs == IF a.segs = <<>> /\ ~a.abs THEN b.abs ELSE a.abs
    IN [abs |-> abs, segs |-> NormalizeSegs(a.segs \o b.segs, <<>>, abs)]

\* path.isAbsolute(filepath) ? filepath : path.join(cwd, filepath)
ensureAbsolutePath(filepath, cwd) ==
    IF isAbsolute(filepath) THEN filepath ELSE join(cwd, filepath)

\* process.cwd(): always an absolute directory.
ProcessCwd == [abs |-> TRUE, segs |-> <<"home", "user">>]

\* options.f ?? d: a sparse configuration is a record holding only the
\* fields the caller set.
Coalesce(options, f, d) == IF f \in DOMAIN options THEN options[f] ELSE d

normalizeOptions(options) ==
    LET cwd == Coalesce(options, "cwd", ProcessCwd)
    IN [ input      |-> ensureAbsolutePath(options.input, cwd),
         output     |-> ensureAbsolutePath(options.output, cwd),
         fileSystem |-> Coalesce(options, "fileSystem", "fs"),
         unpkg      |-> Coalesce(options, "unpkg", FALSE),
         watch      |-> Coalesce(options, "watch", FALSE),
         plugins    |-> Coalesce(options, "plugins", <<>>),
         hooks      |-> Coalesce(options, "hooks", {}),
         cwd        |-> cwd,
         external   |-> Coalesce(options, "external", <<>>),
         platform   |-> Coalesce(options, "platform", "node"),
         format     |-> Coalesce(options, "format", "iife"),
         memfs      |-> Coalesce(options, "memfs", FALSE),
         globalName |-> Coalesce(options, "globalName", "bundler"),
         http       |-> Coalesce(options, "http", FALSE) ]

\* ------------------------------------------------- the full build request
\* platform === "node" ? ["esbuild", "fsevents"] : [..., "chokidar", "yargs"]
PlatformExternals(platform) ==
    IF platform = "node"
    THEN <<"esbuild", "fsevents">>
    ELSE <<"esbuild", "fsevents", "chokidar", "yargs">>

\* const external = this.options.external ?? (platform default)
BuildExternal(o) == Coalesce(o, "external", PlatformExternals(o.platform))

\* Mutant: bare-module resolution is listed before the user-plugin proxy.
PluginSlotsBareFirst(o) ==
    << [on |-> o.platform = "browser", plugin |-> "nodePolyfill", inner |-> <<>>],
       [on |-> o.platform = "browser", plugin |-> "globalExternal", inner |-> <<>>],
       [on |-> TRUE, plugin |-> "entry", inner |-> <<>>],
       [on |-> TRUE, plugin |-> "bareModule", inner |-> <<>>],
       [on |-> TRUE, plugin |-> "rollupProxy", inner |-> <<"watch">> \o o.plugins],
       [on |-> o.http, plugin |-> "http", inner |-> <<>>],
       [on |-> o.unpkg, plugin |-> "unpkg", inner |-> <<>>],
       [on |-> o.memfs, plugin |-> "memfs", inner |-> <<>>] >>

\* The plugins array literal of the request: each slot is a plugin or the
\* false its condition left; the proxy wraps [watchPlugin(), ...plugins].
PluginSlots(o) ==
    << [on |-> o.platform = "browser", plugin |-> "nodePolyfill", inner |-> <<>>],
       [on |-> o.platform = "browser", plugin |-> "globalExternal", inner |-> <<>>],
       [on |-> TRUE, plugin |-> "entry", inner |-> <<>>],
       [on |-> TRUE, plugin |-> "rollupProxy", inner |-> <<"watch">> \o o.plugins],
       [on |-> TRUE, plugin |-> "bareModule", inner |-> <<>>],
       [on |-> o.http, plugin |-> "http", inner |-> <<>>],
       [on |-> o.unpkg, plugin |-> "unpkg", inner |-> <<>>],
       [on |-> o.memfs, plugin |-> "memfs", inner |-> <<>>] >>

\* .filter(Boolean)
IsOn(slot) == slot.on
FilterBoolean(slots) == SelectSeq(slots, IsOn)

\* What build() hands the engine when no handle exists.
BuildRequest(o) ==
    [ external |-> BuildExternal(o),
      platform |-> o.platform,
      plugins  |-> FilterBoolean(PluginSlots(o)) ]

\* ------------------------------------------ the sparse configurations tried
NoOptions == [f \in {} |-> f]
RelFile == [abs |-> FALSE, segs |-> <<"src", "index.ts">>]
UpFile == [abs |-> FALSE, segs |-> <<"..", "index.ts">>]
AbsFile == [abs |-> TRUE, segs |-> <<"work", "index.ts">>]
RelOut == [abs |-> FALSE, segs |-> <<"dist", "out.js">>]
AbsOut == [abs |-> TRUE, segs |-> <<"work", "out.js">>]
AbsDir == [abs |-> TRUE, segs |-> <<"work">>]
RelDir == [abs |-> FALSE, segs |-> <<"proj">>]

SparseConfigs ==
    { [input |-> i, output |-> o] @@ c @@ p @@ e @@ w @@ m @@ h @@ u @@ g @@ x :
        i \in {RelFile, UpFile, AbsFile},
        o \in {RelOut, AbsOut},
        c \in {NoOptions, [cwd |-> AbsDir], [cwd |-> RelDir]},
        p \in {NoOptions, [platform |-> "node"], [platform |-> "browser"]},
        e \in {NoOptions, [external |-> <<>>], [external |-> <<"left-pad">>]},
        w \in {NoOptions, [watch |-> TRUE]},
        m \in {NoOptions, [memfs |-> TRUE]},
        h \in {NoOptions, [http |-> TRUE]},
        u \in {NoOptions, [unpkg |-> TRUE]},
        g \in {NoOptions, [plugins |-> <<"user">>]},
        x \in {NoOptions, [globalName |-> "myLib", format |-> "cjs",
                           fileSystem |-> "memfs", hooks |-> {"start", "done"}]} }

\* A Compiler that has not been asked to build: the state the pure functions
\* are studied in.
compiler == << watch, memfs, watcher, watched, result, firstBuildPass, invocations,
               pending, ended, handles, fs, timeout, fsLog, dirsBefore, added,
               window, dropped >>

Unbuilt ==
    /\ watch = FALSE
    /\ memfs = FALSE
    /\ watcher = FALSE
    /\ watched = {}
    /\ result = NoResult
    /\ firstBuildPass = FALSE
    /\ invocations = 0
    /\ pending = {}
    /\ ended = NoCall
    /\ handles = 0
    /\ fs = [dirs |-> {Root}, files |-> {}]
    /\ dirsBefore = {Root}
    /\ timeout = NoTimer
    /\ fsLog = <<>>
    /\ added = FALSE
    /\ window = NoWindow
    /\ dropped = FALSE

InitOptions ==
    /\ Unbuilt
    /\ arg \in SparseConfigs
    /\ ret = <<>>
    /\ stage = "new"

\* new Compiler(options): this.options = normalizeOptions(options)
Construct ==
    /\ stage = "new"
    /\ ret' = [options |-> normalizeOptions(arg)]
    /\ stage' = "constructed"
    /\ UNCHANGED << arg, compiler >>

\* normalizeOptions applied to a normalized configuration.
Renormalize ==
    /\ stage = "constructed"
    /\ ret' = [options |-> ret.options, again |-> normalizeOptions(ret.options)]
    /\ stage' = "renormalized"
    /\ UNCHANGED << arg, compiler >>

\* build() with no handle: the request of the full engine build.
FullBuildRequest ==
    /\ stage = "constructed"
    /\ ret' = [options |-> ret.options, request |-> BuildRequest(ret.options)]
    /\ stage' = "requested"
    /\ UNCHANGED << arg, compiler >>

NextOptions ==
    \/ Construct
    \/ Renormalize
    \/ FullBuildRequest

SpecOptions == InitOptions /\ [][NextOptions]_vars

\* ------------------------------------------------------------ getFooter
\* The footer runs when the bundle is loaded, after the bundled body.  The
\* banner has declared  var exports = {};  var module = { exports };  so
\* module.exports is the exports object ("E") unless the body has assigned
\* another object or a function ("M") to module.exports.
GlobalName == "bundler"
GValue == "lib"
BundleKeys == {"a", "b"}
Values == {"v1", "v2"}
DataProps == [get : {FALSE}, value : Values, enumerable : BOOLEAN]
EmptyObject == [k \in {} |-> k]
Objects == UNION { [S -> DataProps] : S \in SUBSET BundleKeys }
Put(obj, k, d) == [x \in DOMAIN obj \cup {k} |-> IF x = k THEN d ELSE obj[x]]
\* obj[k] = v
Assign(obj, k, v) ==
    IF k \in DOMAIN obj /\ obj[k].get
    THEN obj
    ELSE Put(obj, k, [get |-> FALSE, value |-> v,
                      enumerable |-> IF k \in DOMAIN obj THEN obj[k].enumerable
                                     ELSE TRUE])

\* Mutant: the merge defines the getter whether or not the key is present.
ShouldDefineAlways(to, key) == TRUE
\* !Object.prototype.hasOwnProperty.call(to, key) && key !== except, with
\* except undefined.
ShouldDefine(to, key) == key \notin DOMAIN to

\* __cp(to, from): a getter  () => from[key]  for each own property name of
\* from that passes the test; the getter's value field names the key read.
Cp(to, from) ==
    [k \in DOMAIN to \cup DOMAIN from |->
        IF k \in DOMAIN from /\ ShouldDefine(to, k)
        THEN [get |-> TRUE, value |-> k, enumerable |-> from[k].enumerable]
        ELSE to[k]]

\* Reading o[k]: a getter reads the exports object at that moment.
Get(heap, o, k) ==
    IF heap[o][k].get THEN heap["E"][heap[o][k].value].value
    ELSE heap[o][k].value

\* The footer text, run on the heap h the bundled body left.
RunFooter(h) ==
    LET h1     == [h.heap EXCEPT ![h.ref] = Assign(@, GlobalName, GValue)]
        typeOk == h.kind = "object"
        h2     == IF typeOk THEN [h1 EXCEPT ![h.ref] = Cp(h1[h.ref], h1["E"])]
                  ELSE h1
    IN [ref |-> h.ref, kind |-> h.kind, heap |-> h2,
        before |-> h1[h.ref], fromAt |-> h1["E"], after |-> h2[h.ref],
        merged |-> typeOk]

BundleHeaps ==
    { [ref |-> "E", kind |-> "object", heap |-> [E |-> e, M |-> EmptyObject]]
        : e \in Objects }
    \cup
    { [ref |-> "M", kind |-> k, heap |-> [E |-> em[1], M |-> em[2]]]
        : k \in {"object", "function"}, em \in Objects \X Objects }

InitFooter ==
    /\ Unbuilt
    /\ arg \in BundleHeaps
    /\ ret = <<>>
    /\ stage = "bundled"

Footer ==
    /\ stage = "bundled"
    /\ ret' = RunFooter(arg)
    /\ stage' = "footer"
    /\ UNCHANGED << arg, compiler >>

\* Bundled code assigns exports.k = v after the footer has run.
SetExport(k, v) ==
    /\ stage = "footer"
    /\ ret' = [ret EXCEPT !.heap = [ret.heap EXCEPT !["E"] = Assign(@, k, v)]]
    /\ UNCHANGED << arg, stage, compiler >>

NextFooter ==
    \/ Footer
    \/ \E k \in BundleKeys, v \in Values : SetExport(k, v)

SpecFooter == InitFooter /\ [][NextFooter]_vars

\* ----------------------------------------------------------- getRequire
MaxExternals == 2
ExternalNames == {"left-pad", "lodash", "react"}
Externals == UNION { [1..n -> ExternalNames] : n \in 0..MaxExternals }
Conventions == {"amd", "commonjs", "global"}
Undefined == [via |-> "undefined", name |-> ""]
FactoryArg == [kind |-> "function", text |-> "factory"]

\* external.map((x) => `'${x}'`).join(", "): a comma list of string literals
defineDeps(external) ==
    [i \in 1..Len(external) |-> [kind |-> "string", text |-> external[i]]]
\* const defineDepsList = [${defineDeps}]
defineDepsList(external) ==
    [i \in 1..Len(external) |-> defineDeps(external)[i].text]
\* define(${defineDeps}, function() {...}): the arguments of the call
DefineCall(external) == defineDeps(external) \o << FactoryArg >>
\* With no externals the text is  define(, function() {  which is no
\* JavaScript: the whole bundle fails to parse.
Parses(external) == defineDeps(external) # <<>>

\* The definer's signature is define(id?, dependencies?, factory): a leading
\* string is the module id, an array after it the dependencies, the next
\* argument the factory.
AfterId(args) == IF args[1].kind = "string" THEN Tail(args) ELSE args
AmdDependencies(args) ==
    IF AfterId(args) # <<>> /\ AfterId(args)[1].kind = "array"
    THEN AfterId(args)[1].items ELSE <<>>
AmdFactory(args) ==
    LET rest == AfterId(args)
        r2   == IF rest # <<>> /\ rest[1].kind = "array" THEN Tail(rest) ELSE rest
    IN IF r2 # <<>> THEN r2[1] ELSE [kind |-> "none", text |-> ""]

\* defineDepsList.indexOf(dep), -1 when absent
indexOf(list, dep) ==
    IF \E i \in 1..Len(list) : list[i] = dep
    THEN (CHOOSE i \in 1..Len(list) :
              list[i] = dep /\ \A j \in 1..(i - 1) : list[j] # dep) - 1
    ELSE 0 - 1

\* The function handed to f as require, applied to dep.
Lookup(convention, external, args, dep) ==
    CASE convention = "amd" ->
             LET index == indexOf(defineDepsList(external), dep)
             IN IF index + 1 \in DOMAIN args THEN args[index + 1] ELSE Undefined
      [] convention = "commonjs" -> [via |-> "require", name |-> dep]
      [] OTHER -> [via |-> "window", name |-> dep]

\* The banner run by a host of the given convention.
RunBanner(external, convention) ==
    LET requested == IF convention = "amd" THEN AmdDependencies(DefineCall(external))
                     ELSE <<>>
    IN [names     |-> { defineDepsList(external)[i] : i \in 1..Len(external) },
        parsed    |-> Parses(external),
        requested |-> IF Parses(external) THEN requested ELSE <<>>,
        args      |-> [i \in 1..Len(requested) |->
                          [via |-> "define", name |-> requested[i]]],
        called    |-> /\ Parses(external)
                      /\ convention = "amd" =>
                             AmdFactory(DefineCall(external)).kind = "function",
        dep       |-> "",
        got       |-> Undefined]

InitBanner ==
    /\ Unbuilt
    /\ arg \in [external : Externals, convention : Conventions]
    /\ ret = <<>>
    /\ stage = "emitted"

LoadBanner ==
    /\ stage = "emitted"
    /\ ret' = RunBanner(arg.external, arg.convention)
    /\ stage' = "loaded"
    /\ UNCHANGED << arg, compiler >>

\* The wrapped body calls require(dep).
RequireDep(dep) ==
    /\ stage \in {"loaded", "required"}
    /\ ret.called
    /\ ret' = [ret EXCEPT !.dep = dep,
                          !.got = Lookup(arg.convention, arg.external, ret.args, dep)]
    /\ stage' = "required"
    /\ UNCHANGED << arg, compiler >>

NextBanner ==
    \/ LoadBanner
    \/ \E dep \in ExternalNames : RequireDep(dep)

SpecBanner == InitBanner /\ [][NextBanner]_vars

\* ================================================================== claims
AdapterRaised == ended.engine = "ok" /\ ended.pc = "rejected"
\* The invocations made after the last one ended.
LaterPending == { c \in pending : c.id > ended.at }
Writes(log) == SelectSeq(log, IsWrite)
ExpectedWrites(out) == [ i \in 1..Len(out) |-> <<"writeFileSync", out[i].path, out[i].text>> ]

\* C1: at most one engine operation (full build or rebuild) is in flight at
\* any time, whatever the interleaving of explicit and watch-triggered calls.
C1_OneEngineCallInFlight == Cardinality(pending) <= 1

\* C2: hooks.done has been invoked exactly once in every build() invocation
\* that ended, whether its engine call returned or raised (the adapter's own
\* failures set aside).
C2_DoneOncePerInvocation ==
    (ended # NoCall /\ ~AdapterRaised) => ended.done = 1

\* C3: an engine call that raises is caught inside build(): the invocation
\* completes without the error reaching its caller.
C3_EngineFailureCaught ==
    ended.engine = "raised" => ended.pc = "resolved"

\* C4: when a full build raises while no handle is held, no handle is held
\* afterwards and every build() invocation made after it performs a full
\* build again.
C4_FailedFullBuildRetried ==
    (ended.engine = "raised" /\ ended.kind = "full" /\ ended.before = NoHandle)
        => /\ result.handle = NoHandle
           /\ \A c \in LaterPending : c.kind = "full"

C4_Witness ==
    /\ ended.engine = "raised" /\ ended.kind = "full" /\ ended.before = NoHandle
    /\ LaterPending # {}

\* C5: when a rebuild raises while a handle is held, that same handle is held
\* afterwards and every build() invocation made after it calls rebuild on it.
C5_FailedRebuildKeepsHandle ==
    (ended.engine = "raised" /\ ended.kind = "rebuild" /\ ended.before # NoHandle)
        => /\ result.handle = ended.before
           /\ \A c \in LaterPending : c.kind = "rebuild" /\ c.target = ended.before

C5_Witness ==
    /\ ended.engine = "raised" /\ ended.kind = "rebuild" /\ ended.before # NoHandle
    /\ LaterPending # {}

\* C6: the engine creates at most one handle by a successful full build per
\* Compiler, over any interleaving of build() invocations.
C6_AtMostOneHandleCreated == handles <= 1

C8_LeadingEventBuildsOnce ==
    (timeout # NoTimer /\ window.ready) => window.builds = 1

C8_Witness ==
    /\ timeout # NoTimer /\ timeout < Wait
    /\ window.ready /\ window.more /\ window.builds = 1

\* C9: while firstBuildPass is false no file-change event has triggered a
\* build() invocation, however many events arrived.
C9_NoWatchBuildBeforeFirstPass ==
    ~firstBuildPass => /\ \A c \in pending : c.src # "watch"
                       /\ ended.src # "watch"
                       /\ window.builds = 0

C9_Witness ==
    /\ ~firstBuildPass /\ pending # {}
    /\ timeout # NoTimer /\ window.more

\* C10: in memory-filesystem mode an invocation whose engine call returned
\* writes the handle's output files through the adapter, in order, an
\* invocation whose engine call raised makes no adapter call, and nothing is
\* written before an engine call has returned.
C10_WritesOnlyAfterSuccess ==
    memfs =>
        /\ ended.engine = "raised" => fsLog = <<>>
        /\ (ended.engine = "ok" /\ ended.pc = "resolved")
               => Writes(fsLog) = ExpectedWrites(result.outputFiles)
        /\ AdapterRaised => fsLog # <<>>
        /\ handles = 0 => fs.files = {}

C10_Witness ==
    /\ memfs /\ ended.engine = "raised" /\ ended.kind = "rebuild"
    /\ fsLog = <<>> /\ result.outputFiles # <<>> /\ fs.files # {}

\* C11: when an adapter call raises during the write loop (the engine call
\* having returned), hooks.done is still invoked for that invocation.
C11_DoneAfterWriteFailure == AdapterRaised => ended.done = 1

\* C15: a Compiler constructed with watch disabled has no watcher, at
\* construction and after any build() or addWatchFile() call, and
\* addWatchFile() registers nothing.
C15_NoWatcherWhenWatchDisabled ==
    ~watch => (~watcher /\ watched = {})

C15_Witness ==
    /\ ~watch /\ added /\ ended # NoCall
    /\ ~watcher /\ watched = {}

\* C18: firstBuildPass is true once any build() invocation has ended,
\* whether its engine call returned or raised, so the watch callback's guard
\* lets later events through.
C18_FirstBuildPassSetOnAnyEnd ==
    ended # NoCall => (firstBuildPass /\ WatchGuard)

C18_Witness ==
    /\ ended.engine = "raised" /\ handles = 0
    /\ \E c \in LaterPending : c.src = "watch"

\* The adapter calls the write loop is to make for the output files `out`
\* over an adapter whose directories are `dirs`.
RECURSIVE ExpectedLog(_, _)
ExpectedLog(out, dirs) ==
    IF out = <<>>
    THEN <<>>
    ELSE LET x == Head(out)
             d == dirname(x.path)
         IN (IF d \in dirs THEN <<>> ELSE << <<"mkdirSync", d, "">> >>)
            \o << <<"writeFileSync", x.path, x.text>> >>
            \o ExpectedLog(Tail(out), dirs \cup {d})

IsPrefix(a, b) == Len(a) <= Len(b) /\ a = SubSeq(b, 1, Len(a))

\* C19: in memory-filesystem mode, after a returned engine call, the adapter
\* receives for each output file in list order one writeFileSync(path, text),
\* preceded by one mkdirSync(parent) iff the parent did not exist at that
\* moment (the loop ending at the first adapter call that raises); for the
\* single file /out/a.js with /out missing that is mkdirSync(/out) followed
\* by writeFileSync(/out/a.js, text).
C19_WriteLoopCalls ==
    (memfs /\ ended.engine = "ok") =>
        /\ IsPrefix(fsLog, ExpectedLog(result.outputFiles, dirsBefore))
        /\ ended.pc = "resolved"
              => fsLog = ExpectedLog(result.outputFiles, dirsBefore)
        /\ (ended.pc = "resolved" /\ result.outputFiles = <<FileA>>
                /\ dirsBefore = {Root})
              => fsLog = << <<"mkdirSync", <<"out">>, "">>,
                            <<"writeFileSync", <<"out", "a.js">>, "a">> >>

C19_Witness ==
    /\ memfs /\ ended.engine = "ok" /\ ended.pc = "resolved"
    /\ result.outputFiles = <<FileA>> /\ dirsBefore = {Root}
    /\ Len(fsLog) = 2 /\ <<"out">> \in fs.dirs

\* The fixed pipeline order.
PipelineOrder ==
    << "nodePolyfill", "globalExternal", "entry", "rollupProxy", "bareModule",
       "http", "unpkg", "memfs" >>
Rank(n) == CHOOSE i \in 1..Len(PipelineOrder) : PipelineOrder[i] = n
PluginNames(ps) == { ps[i].plugin : i \in 1..Len(ps) }

\* C12: the plugin list of a full build keeps the fixed relative order
\* polyfill, external-global, entry, user-plugin proxy, bare-module, http,
\* registry, memfs; the first two are present iff the platform is browser,
\* http, registry and memfs iff their option is enabled, the other three
\* always; user plugins sit inside the proxy and never change the order.
C12_PluginOrderFixed ==
    stage = "requested" =>
        LET o  == ret.options
            ps == ret.request.plugins
        IN /\ \A i \in 1..Len(ps) : \E k \in 1..Len(PipelineOrder) :
                  ps[i].plugin = PipelineOrder[k]
           /\ \A i, j \in 1..Len(ps) :
                  i < j => Rank(ps[i].plugin) < Rank(ps[j].plugin)
           /\ ("nodePolyfill" \in PluginNames(ps)) <=> (o.platform = "browser")
           /\ ("globalExternal" \in PluginNames(ps)) <=> (o.platform = "browser")
           /\ ("http" \in PluginNames(ps)) <=> o.http
           /\ ("unpkg" \in PluginNames(ps)) <=> o.unpkg
           /\ ("memfs" \in PluginNames(ps)) <=> o.memfs
           /\ {"entry", "rollupProxy", "bareModule"} \subseteq PluginNames(ps)
           /\ \A i \in 1..Len(ps) :
                  ps[i].inner = IF ps[i].plugin = "rollupProxy"
                                THEN <<"watch">> \o o.plugins ELSE <<>>

C12_Witness ==
    /\ stage = "requested"
    /\ ret.options.platform = "browser" /\ ret.options.plugins # <<>>
    /\ ret.options.http /\ ret.options.unpkg /\ ret.options.memfs
    /\ Len(ret.request.plugins) = Len(PipelineOrder)

\* C13: for every sparse configuration, also one with a relative working
\* directory, the normalized input and output paths are absolute.
C13_NormalizedPathsAbsolute ==
    stage = "constructed" =>
        (isAbsolute(ret.options.input) /\ isAbsolute(ret.options.output))

\* C14: normalizing a normalized configuration yields the same
\* configuration, field by field.
C14_NormalizeIdempotent ==
    stage = "renormalized" => ret.again = ret.options

\* C20: when the configuration supplies no externals, the externals list of
\* the full build request is the platform's default list.
C20_ExternalsDefaultByPlatform ==
    (stage = "requested" /\ "external" \notin DOMAIN arg)
        => ret.request.external = PlatformExternals(ret.request.platform)

\* C16: the footer's merge leaves every own property of the module-exports
\* object as it was, also when the exports object has the same key, and
\* every key the module-exports object lacks becomes a getter that reads the
\* exports object's value at the time of the read.
C16_FooterMergeKeepsOwnKeys ==
    stage = "footer" =>
        /\ \A k \in DOMAIN ret.before :
               k \in DOMAIN ret.after /\ ret.after[k] = ret.before[k]
        /\ ret.merged =>
               \A k \in DOMAIN ret.fromAt \ DOMAIN ret.before :
                   /\ k \in DOMAIN ret.heap[ret.ref]
                   /\ ret.heap[ret.ref][k].get
                   /\ Get(ret.heap, ret.ref, k) = ret.heap["E"][k].value

C16_Witness ==
    /\ stage = "footer" /\ ret.merged /\ ret.ref = "M"
    /\ \E k \in DOMAIN ret.before \cap DOMAIN ret.fromAt :
           ret.before[k].value # ret.fromAt[k].value
    /\ \E k \in DOMAIN ret.fromAt \ DOMAIN ret.before :
           ret.heap["E"][k].value # ret.fromAt[k].value

\* The dependency the host of a convention holds for a name.
Dependency(convention, name) ==
    CASE convention = "amd" -> [via |-> "define", name |-> name]
      [] convention = "commonjs" -> [via |-> "require", name |-> name]
      [] OTHER -> [via |-> "window", name |-> name]

\* C17: the banner names exactly the externals E; under the definer
\* convention the definer is asked for all of E as dependencies; and the
\* lookup handed to the wrapped body returns, for each name of E, that
\* name's dependency under the host's convention.
C17_BannerLookupByConvention ==
    stage \in {"loaded", "required"} =>
        /\ ret.names = { arg.external[i] : i \in 1..Len(arg.external) }
        /\ arg.convention = "amd" => ret.requested = arg.external
        /\ (stage = "required" /\ ret.dep \in ret.names)
               => ret.got = Dependency(arg.convention, ret.dep)

====
